---------------------------- MODULE Spec2Model ----------------------------
(***************************************************************************)
(* MPF codec core (libs/mpf/include/mpf_codec.h): codec construction and   *)
(* cloning, the encoder/decoder lifecycle wrappers, encode/decode          *)
(* dispatch, the frame dissector (custom or default fixed-size) and the    *)
(* silence fill (custom or default zero fill).                             *)
(*                                                                         *)
(* Memory is modelled byte by byte.  A frame is a pointer to a region of   *)
(* MemLen mapped bytes of which the first `cap` belong to the frame's      *)
(* buffer (the rest is adjacent memory owned by something else) together   *)
(* with the declared `size`.  The source buffer of a dissection is `data`, *)
(* `buffer` is the offset of the caller's *buffer pointer into it and      *)
(* `size` the caller's *size.                                              *)
(***************************************************************************)
EXTENDS Integers, Sequences, FiniteSets, TLC

(* ------------------------------ bounds --------------------------------- *)
MaxCodecs == 2
MaxSize == 5
MaxFrame == 3
MaxCap == 3

MemLen == (IF MaxFrame > MaxCap THEN MaxFrame ELSE MaxCap) + 1

VARIABLES
    codec,      \* heap of codec objects: the sequence of allocated mpf_codec_t
    data,       \* the bytes of the buffer handed to the dissector
    buffer,     \* offset of *buffer into data
    size,       \* *size: the caller's remaining_size
    frame,      \* the frame (dissect, fill) or frame_out (encode, decode) after the call
    frame_in,   \* frame_in after the call (encode, decode)
    call,       \* the last call: operation, codec, arguments as passed, return value
    fam,        \* what the family's implementation reported in the last call
    track,      \* bookkeeping of the dissection run over data
    crashed     \* the process died on a memory fault

vars == <<codec, data, buffer, size, frame, frame_in, call, fam, track, crashed>>

(* ------------------------------ values --------------------------------- *)
NULL == "NULL"
\* No family implementation invoked; no frame involved in the call.
NoFam == [invoked |-> FALSE]
NoFrame == [buffer |-> <<>>, cap |-> 0, size |-> 0]

Ops == {"open_encoder", "close_encoder", "open_decoder", "close_decoder",
        "encode", "decode", "dissect", "fill", "match_formats"}

LifecycleOps == {"open_encoder", "close_encoder", "open_decoder", "close_decoder"}

\* A capability set (vtable) is the set of its non-NULL members.
\* The registered families: capability set, attributes and the static
\* descriptor (NULL for a dynamic payload type).
Families ==
    { [vtable |-> {}, attribs |-> "L16", descriptor |-> NULL],
      [vtable |-> {"encode", "decode", "fill"}, attribs |-> "PCMU",
       descriptor |-> "PCMU/8000/1"],
      [vtable |-> {"open_decoder", "close_decoder", "decode", "dissect", "match_formats"},
       attribs |-> "G729", descriptor |-> "G729/8000/1"],
      [vtable |-> Ops, attribs |-> "AMR", descriptor |-> NULL] }

Min(a, b) == IF a < b THEN a ELSE b

TestByte(i) == i
GarbageByte(p, i) == 160 + 16 * p + i

\* A caller's frame: capacity cap, declared size n, previous content pattern p.
NewFrame(cap, n, p) ==
    [buffer |-> [i \in 1..MemLen |-> GarbageByte(p, i)], cap |-> cap, size |-> n]

(* ------------------------------ libc ----------------------------------- *)
memcpy(dst, src, n) ==
    [i \in 1..Len(dst) |-> IF i <= n THEN src[i] ELSE dst[i]]

memset(dst, v, n) ==
    [i \in 1..Len(dst) |-> IF i <= n THEN v ELSE dst[i]]

\* The bytes *buffer points at.
At(d, off) == SubSeq(d, off + 1, Len(d))


(* ----------------- family implementations (plug-ins) ------------------- *)
\* The outcomes a family's open/close implementation can report: success
\* after allocating (open) or releasing (close) the opaque state handle of
\* the codec it was passed, or failure with the codec untouched.
FamilyLifecycle(op, cdc) ==
    { [rv |-> FALSE, codec |-> cdc],
      [rv |-> TRUE,
       codec |-> CASE op = "open_encoder"  -> [cdc EXCEPT !.encoder_obj = "encoder_state"]
                   [] op = "close_encoder" -> [cdc EXCEPT !.encoder_obj = NULL]
                   [] op = "open_decoder"  -> [cdc EXCEPT !.decoder_obj = "decoder_state"]
                   [] op = "close_decoder" -> [cdc EXCEPT !.decoder_obj = NULL]] }

\* A family's encode (decode): failure with frame_out untouched, or the
\* transformed payload of frame_in written to frame_out with its true size.
FamilyTranscode(op, fin, fout) ==
    LET n == Min(fin.size, fout.cap)
        d == IF op = "encode" THEN 1 ELSE 255
    IN  { [rv |-> FALSE, frame_in |-> fin, frame_out |-> fout],
          [rv |-> TRUE, frame_in |-> fin,
           frame_out |-> [fout EXCEPT
                !.buffer = [i \in 1..MemLen |->
                              IF i <= n THEN (fin.buffer[i] + d) % 256 ELSE @[i]],
                !.size = n]] }

\* A family's custom dissector (variable frame size): failure with nothing
\* consumed, or one logical frame of n bytes consumed from the head.
FamilyDissect(buf, sz, fr) ==
    { [rv |-> FALSE, buffer |-> buf, size |-> sz, frame |-> fr] } \cup
    { [rv |-> TRUE, buffer |-> buf + n, size |-> sz - n,
       frame |-> [fr EXCEPT !.buffer = memcpy(@, At(data, buf), n), !.size = n]]
      : n \in 1..Min(sz, fr.cap) }

\* A family's silence generator: a non-zero silence pattern (companded
\* codecs), or failure.
FamilyFill(fr) ==
    { [rv |-> FALSE, frame |-> fr],
      [rv |-> TRUE,
       frame |-> [fr EXCEPT !.buffer = memset(@, 213, Min(fr.size, fr.cap))]] }

(* --------------------------- mpf_codec.h ------------------------------- *)
mpf_codec_create(vtable, attribs, descriptor, pool) ==
    [vtable |-> vtable,
     attribs |-> attribs,
     static_descriptor |-> descriptor,
     encoder_obj |-> NULL,
     decoder_obj |-> NULL,
     pool |-> pool]

\* The clone as a copy of the whole source structure: the state handles are
\* copied with it.
mpf_codec_clone_CopiesState(src_codec, pool) ==
    [vtable |-> src_codec.vtable,
     attribs |-> src_codec.attribs,
     static_descriptor |-> src_codec.static_descriptor,
     encoder_obj |-> src_codec.encoder_obj,
     decoder_obj |-> src_codec.decoder_obj,
     pool |-> pool]

mpf_codec_clone(src_codec, pool) ==
    [vtable |-> src_codec.vtable,
     attribs |-> src_codec.attribs,
     static_descriptor |-> src_codec.static_descriptor,
     encoder_obj |-> NULL,
     decoder_obj |-> NULL,
     pool |-> pool]

\* rv starts FALSE: an absent open_encoder reports failure.
mpf_codec_encoder_open_RvFalse(cdc, fo) ==
    IF "open_encoder" \in cdc.vtable
    THEN [rv |-> fo.rv, codec |-> fo.codec, calls |-> 1]
    ELSE [rv |-> FALSE, codec |-> cdc, calls |-> 0]

\* fo is the outcome the family's implementation reports when it is invoked.
mpf_codec_encoder_open(cdc, fo) ==
    IF "open_encoder" \in cdc.vtable
    THEN [rv |-> fo.rv, codec |-> fo.codec, calls |-> 1]
    ELSE [rv |-> TRUE, codec |-> cdc, calls |-> 0]

mpf_codec_encoder_close(cdc, fo) ==
    IF "close_encoder" \in cdc.vtable
    THEN [rv |-> fo.rv, codec |-> fo.codec, calls |-> 1]
    ELSE [rv |-> TRUE, codec |-> cdc, calls |-> 0]

mpf_codec_decoder_open(cdc, fo) ==
    IF "open_decoder" \in cdc.vtable
    THEN [rv |-> fo.rv, codec |-> fo.codec, calls |-> 1]
    ELSE [rv |-> TRUE, codec |-> cdc, calls |-> 0]

mpf_codec_decoder_close(cdc, fo) ==
    IF "close_decoder" \in cdc.vtable
    THEN [rv |-> fo.rv, codec |-> fo.codec, calls |-> 1]
    ELSE [rv |-> TRUE, codec |-> cdc, calls |-> 0]

\* An absent encode resets the output frame's size.
mpf_codec_encode_ClearsOutput(cdc, fin, fout, fo) ==
    IF "encode" \in cdc.vtable
    THEN [rv |-> fo.rv, codec |-> cdc, frame_in |-> fo.frame_in,
          frame_out |-> fo.frame_out, extent |-> 0, calls |-> 1]
    ELSE [rv |-> TRUE, codec |-> cdc, frame_in |-> fin,
          frame_out |-> [fout EXCEPT !.size = 0], extent |-> 0, calls |-> 0]

mpf_codec_encode(cdc, fin, fout, fo) ==
    IF "encode" \in cdc.vtable
    THEN [rv |-> fo.rv, codec |-> cdc, frame_in |-> fo.frame_in,
          frame_out |-> fo.frame_out, extent |-> 0, calls |-> 1]
    ELSE [rv |-> TRUE, codec |-> cdc, frame_in |-> fin, frame_out |-> fout,
          extent |-> 0, calls |-> 0]

mpf_codec_decode(cdc, fin, fout, fo) ==
    IF "decode" \in cdc.vtable
    THEN [rv |-> fo.rv, codec |-> cdc, frame_in |-> fo.frame_in,
          frame_out |-> fo.frame_out, extent |-> 0, calls |-> 1]
    ELSE [rv |-> TRUE, codec |-> cdc, frame_in |-> fin, frame_out |-> fout,
          extent |-> 0, calls |-> 0]

\* Variants of the default dissector, each one slip away from the source.
\* The comparison is strict.
DefaultDissect_Strict(buf, sz, fr) ==
    IF sz > fr.size /\ fr.size # 0
    THEN [rv |-> TRUE,
          buffer |-> buf + fr.size,
          size |-> sz - fr.size,
          frame |-> [fr EXCEPT !.buffer = memcpy(@, At(data, buf), fr.size)],
          extent |-> fr.size]
    ELSE [rv |-> FALSE, buffer |-> buf, size |-> sz, frame |-> fr, extent |-> 0]

\* The test of frame->size is missing.
DefaultDissect_NoZeroGuard(buf, sz, fr) ==
    IF sz >= fr.size
    THEN [rv |-> TRUE,
          buffer |-> buf + fr.size,
          size |-> sz - fr.size,
          frame |-> [fr EXCEPT !.buffer = memcpy(@, At(data, buf), fr.size)],
          extent |-> fr.size]
    ELSE [rv |-> FALSE, buffer |-> buf, size |-> sz, frame |-> fr, extent |-> 0]

\* The copy reads from the start of the data, not from *buffer.
DefaultDissect_CopyFromStart(buf, sz, fr) ==
    IF sz >= fr.size /\ fr.size # 0
    THEN [rv |-> TRUE,
          buffer |-> buf + fr.size,
          size |-> sz - fr.size,
          frame |-> [fr EXCEPT !.buffer = memcpy(@, At(data, 0), fr.size)],
          extent |-> fr.size]
    ELSE [rv |-> FALSE, buffer |-> buf, size |-> sz, frame |-> fr, extent |-> 0]

\* *buffer is advanced and *size is left as it was.
DefaultDissect_NoDecrement(buf, sz, fr) ==
    IF sz >= fr.size /\ fr.size # 0
    THEN [rv |-> TRUE,
          buffer |-> buf + fr.size,
          size |-> sz,
          frame |-> [fr EXCEPT !.buffer = memcpy(@, At(data, buf), fr.size)],
          extent |-> fr.size]
    ELSE [rv |-> FALSE, buffer |-> buf, size |-> sz, frame |-> fr, extent |-> 0]

\* The default dissector; extent is the number of bytes of frame->buffer the
\* memcpy writes.
DefaultDissect(buf, sz, fr) ==
    IF sz >= fr.size /\ fr.size # 0
    THEN [rv |-> TRUE,
          buffer |-> buf + fr.size,
          size |-> sz - fr.size,
          frame |-> [fr EXCEPT !.buffer = memcpy(@, At(data, buf), fr.size)],
          extent |-> fr.size]
    ELSE [rv |-> FALSE, buffer |-> buf, size |-> sz, frame |-> fr, extent |-> 0]

\* The else is missing: the default dissector runs after the custom one, on
\* what the custom one left.
mpf_codec_dissect_FallsThrough(cdc, buf, sz, fr, fo) ==
    IF "dissect" \in cdc.vtable
    THEN LET r == DefaultDissect(fo.buffer, fo.size, fo.frame)
         IN  [rv |-> r.rv, buffer |-> r.buffer, size |-> r.size, frame |-> r.frame,
              extent |-> r.extent, calls |-> 1]
    ELSE LET r == DefaultDissect(buf, sz, fr)
         IN  [rv |-> r.rv, buffer |-> r.buffer, size |-> r.size, frame |-> r.frame,
              extent |-> r.extent, calls |-> 0]

mpf_codec_dissect(cdc, buf, sz, fr, fo) ==
    IF "dissect" \in cdc.vtable
    THEN [rv |-> fo.rv, buffer |-> fo.buffer, size |-> fo.size, frame |-> fo.frame,
          extent |-> 0, calls |-> 1]
    ELSE LET r == DefaultDissect(buf, sz, fr)
         IN  [rv |-> r.rv, buffer |-> r.buffer, size |-> r.size, frame |-> r.frame,
              extent |-> r.extent, calls |-> 0]

\* The last two arguments of memset are swapped.
DefaultFill_SwappedArgs(fr) ==
    [rv |-> TRUE, frame |-> [fr EXCEPT !.buffer = memset(@, fr.size, 0)],
     extent |-> 0]

\* The default fill; extent is the number of bytes of frame_out->buffer the
\* memset writes.
DefaultFill(fr) ==
    [rv |-> TRUE, frame |-> [fr EXCEPT !.buffer = memset(@, 0, fr.size)],
     extent |-> fr.size]

mpf_codec_fill(cdc, fr, fo) ==
    IF "fill" \in cdc.vtable
    THEN [rv |-> fo.rv, frame |-> fo.frame, extent |-> 0, calls |-> 1]
    ELSE LET r == DefaultFill(fr)
         IN  [rv |-> r.rv, frame |-> r.frame, extent |-> r.extent, calls |-> 0]

(* ------------------------------ state ---------------------------------- *)
Slots == 1..MaxCodecs
PoolSet == {"pool_a", "pool_b"}
Patterns == {0, 1}

\* The frames a caller passes to fill, to dissect, and to encode and decode:
\* every declared size with every capacity.
Frames == { NewFrame(cap, n, p) : cap \in 0..MaxCap, n \in 0..MaxFrame, p \in Patterns }
DissectFrames == { NewFrame(cap, n, 0) : cap \in 0..MaxCap, n \in 0..MaxFrame }
InFrames == { NewFrame(n, n, 0) : n \in 0..MaxFrame }
OutFrames == { NewFrame(MaxCap, n, 1) : n \in {0, MaxFrame} }

NoTrack == [F |-> -1, nsucc |-> 0, failed |-> FALSE, custom |-> FALSE]

\* The record of a call: the operation, the codec it was made on (src: the
\* codec cloned), the return value, the number of invocations of the family's
\* implementation, the bytes of the frame buffer the core accessed, and the
\* arguments as they were passed.
CallRec(op, c, r, fr, fin) ==
    [op |-> op, cid |-> c, src |-> 0, rv |-> r.rv, calls |-> r.calls,
     extent |-> r.extent, frame0 |-> fr, frame_in0 |-> fin,
     buffer0 |-> buffer, size0 |-> size]

\* The record of a call that involves no frame.
PlainCall(op, c, rv, calls) ==
    CallRec(op, c, [rv |-> rv, calls |-> calls, extent |-> 0], NoFrame, NoFrame)

\* The caller's state around the codecs: a received buffer of S bytes not
\* yet dissected, no call made.
Caller(S) ==
    /\ data = [i \in 1..S |-> TestByte(i)]
    /\ buffer = 0
    /\ size = S
    /\ frame = NoFrame
    /\ frame_in = NoFrame
    /\ call = PlainCall("none", 0, TRUE, 0)
    /\ fam = NoFam
    /\ track = NoTrack
    /\ crashed = FALSE

\* One stream: a codec of some registered family, just created.
Init ==
    /\ \E f \in Families :
         codec = << mpf_codec_create(f.vtable, f.attribs, f.descriptor, "pool_a") >>
    /\ \E S \in 0..MaxSize : Caller(S)

\* Several streams: nothing created yet, nothing to dissect.
InitStreams ==
    /\ codec = <<>>
    /\ Caller(0)

\* apr_palloc: the next free place of the heap.
FreeSlot(s) == s = Len(codec) + 1
Live(c) == c \in DOMAIN codec

(* ----------------------------- operations ------------------------------ *)
Create(s, vt, at, d, p) ==
    /\ ~crashed
    /\ FreeSlot(s)
    /\ codec' = Append(codec, mpf_codec_create(vt, at, d, p))
    /\ call' = PlainCall("create", s, TRUE, 0)
    /\ frame' = NoFrame /\ frame_in' = NoFrame /\ fam' = NoFam
    /\ UNCHANGED <<data, buffer, size, track, crashed>>

Clone(s, src, p) ==
    /\ ~crashed
    /\ FreeSlot(s)
    /\ Live(src)
    /\ codec' = Append(codec, mpf_codec_clone(codec[src], p))
    /\ call' = [PlainCall("clone", s, TRUE, 0) EXCEPT !.src = src]
    /\ frame' = NoFrame /\ frame_in' = NoFrame /\ fam' = NoFam
    /\ UNCHANGED <<data, buffer, size, track, crashed>>

\* The outcomes the family's member op can report, when the vtable has it.
Reported(c, op, outcomes) == IF op \in codec[c].vtable THEN outcomes ELSE {NoFam}

Lifecycle(op, c, r, fo) ==
    /\ codec' = [codec EXCEPT ![c] = r.codec]
    /\ call' = PlainCall(op, c, r.rv, r.calls)
    /\ fam' = fo
    /\ frame' = NoFrame /\ frame_in' = NoFrame
    /\ UNCHANGED <<data, buffer, size, track, crashed>>

EncoderOpen(c) ==
    /\ ~crashed /\ Live(c)
    /\ \E fo \in Reported(c, "open_encoder", FamilyLifecycle("open_encoder", codec[c])) :
         Lifecycle("open_encoder", c, mpf_codec_encoder_open(codec[c], fo), fo)

EncoderClose(c) ==
    /\ ~crashed /\ Live(c)
    /\ \E fo \in Reported(c, "close_encoder", FamilyLifecycle("close_encoder", codec[c])) :
         Lifecycle("close_encoder", c, mpf_codec_encoder_close(codec[c], fo), fo)

DecoderOpen(c) ==
    /\ ~crashed /\ Live(c)
    /\ \E fo \in Reported(c, "open_decoder", FamilyLifecycle("open_decoder", codec[c])) :
         Lifecycle("open_decoder", c, mpf_codec_decoder_open(codec[c], fo), fo)

DecoderClose(c) ==
    /\ ~crashed /\ Live(c)
    /\ \E fo \in Reported(c, "close_decoder", FamilyLifecycle("close_decoder", codec[c])) :
         Lifecycle("close_decoder", c, mpf_codec_decoder_close(codec[c], fo), fo)

Transcode(op, c, fin, fout, r, fo) ==
    /\ codec' = [codec EXCEPT ![c] = r.codec]
    /\ frame_in' = r.frame_in
    /\ frame' = r.frame_out
    /\ call' = CallRec(op, c, r, fout, fin)
    /\ fam' = fo
    /\ UNCHANGED <<data, buffer, size, track, crashed>>

Encode(c, fin, fout) ==
    /\ ~crashed /\ Live(c)
    /\ \E fo \in Reported(c, "encode", FamilyTranscode("encode", fin, fout)) :
         Transcode("encode", c, fin, fout, mpf_codec_encode(codec[c], fin, fout, fo), fo)

Decode(c, fin, fout) ==
    /\ ~crashed /\ Live(c)
    /\ \E fo \in Reported(c, "decode", FamilyTranscode("decode", fin, fout)) :
         Transcode("decode", c, fin, fout, mpf_codec_decode(codec[c], fin, fout, fo), fo)

\* A write past the frame buffer's capacity is undefined behaviour: the
\* process dies on the fault, or the write lands in the adjacent memory and
\* the call returns.
Fault(op, c, fr, r) ==
    /\ r.extent > fr.cap
    /\ crashed' = TRUE
    /\ call' = CallRec("fault", c, [r EXCEPT !.rv = FALSE], fr, NoFrame)
    /\ frame' = NoFrame /\ frame_in' = NoFrame /\ fam' = NoFam
    /\ UNCHANGED <<codec, data, buffer, size, track>>

\* The run of dissect calls over data: the frame size used so far by the
\* default dissector (-1 none yet, -2 several), its successes, whether it
\* has failed, and whether a custom dissector has consumed from the buffer.
Tracked(c, fr, r) ==
    IF "dissect" \in codec[c].vtable
    THEN [F |-> -2, nsucc |-> 0, failed |-> FALSE, custom |-> TRUE]
    ELSE IF track.F \in {-1, fr.size} /\ ~track.custom
    THEN [F |-> fr.size,
          nsucc |-> IF r.rv THEN track.nsucc + 1 ELSE track.nsucc,
          failed |-> track.failed \/ ~r.rv,
          custom |-> FALSE]
    ELSE [F |-> -2, nsucc |-> 0, failed |-> FALSE, custom |-> track.custom]

Dissect(c, fr) ==
    /\ ~crashed /\ Live(c)
    /\ \E fo \in Reported(c, "dissect", FamilyDissect(buffer, size, fr)) :
         LET r == mpf_codec_dissect(codec[c], buffer, size, fr, fo)
         IN  \/ Fault("dissect", c, fr, r)
             \/ /\ buffer' = r.buffer
                /\ size' = r.size
                /\ frame' = r.frame
                /\ call' = CallRec("dissect", c, r, fr, NoFrame)
                /\ fam' = fo
                /\ track' = Tracked(c, fr, r)
                /\ frame_in' = NoFrame
                /\ UNCHANGED <<codec, data, crashed>>

Fill(c, fr) ==
    /\ ~crashed /\ Live(c)
    /\ \E fo \in Reported(c, "fill", FamilyFill(fr)) :
         LET r == mpf_codec_fill(codec[c], fr, fo)
         IN  \/ Fault("fill", c, fr, r)
             \/ /\ frame' = r.frame
                /\ call' = CallRec("fill", c, r, fr, NoFrame)
                /\ fam' = fo
                /\ frame_in' = NoFrame
                /\ UNCHANGED <<codec, data, buffer, size, track, crashed>>

Next ==
    \/ \E c \in Slots : EncoderOpen(c)
    \/ \E c \in Slots : EncoderClose(c)
    \/ \E c \in Slots : DecoderOpen(c)
    \/ \E c \in Slots : DecoderClose(c)
    \/ \E c \in Slots, fin \in InFrames, fout \in OutFrames : Encode(c, fin, fout)
    \/ \E c \in Slots, fin \in InFrames, fout \in OutFrames : Decode(c, fin, fout)
    \/ \E c \in Slots, fr \in DissectFrames : Dissect(c, fr)
    \/ \E c \in Slots, fr \in Frames : Fill(c, fr)

Spec == Init /\ [][Next]_vars

NextStreams ==
    \/ \E s \in Slots, f \in Families, p \in PoolSet :
         Create(s, f.vtable, f.attribs, f.descriptor, p)
    \/ \E s \in Slots, src \in Slots, p \in PoolSet : Clone(s, src, p)
    \/ \E c \in Slots : EncoderOpen(c)
    \/ \E c \in Slots : EncoderClose(c)
    \/ \E c \in Slots : DecoderOpen(c)
    \/ \E c \in Slots : DecoderClose(c)

SpecStreams == InitStreams /\ [][NextStreams]_vars

(* ------------------------------ claims --------------------------------- *)
\* The last call was op, returned, and the codec's family has no
\* implementation of op: the default behaviour applied.
DefaultCall(op) ==
    /\ call.op = op
    /\ op \notin codec[call.cid].vtable

\* The last call was op, returned, and the family's implementation applied.
CustomCall(op) ==
    /\ call.op = op
    /\ op \in codec[call.cid].vtable

\* C1 (default dissect exhaustion): while every dissect call over a buffer of
\* S bytes used the default dissector with one frame size F > 0, a call
\* fails iff fewer than F bytes remained; there are never more than S div F
\* successes; once a call has failed there were exactly S div F successes,
\* remaining_size is S mod F (less than F) and stays so, and no later call
\* succeeds.
C1_DissectExhaustion ==
    track.F > 0 =>
        LET F == track.F
            S == Len(data)
        IN  /\ track.nsucc <= S \div F
            /\ size = S - track.nsucc * F
            /\ track.failed =>
                 /\ track.nsucc = S \div F
                 /\ size = S % F
                 /\ size < F
            /\ call.op = "dissect" =>
                 /\ call.rv <=> call.size0 >= F
                 /\ ~call.rv => size = call.size0

\* S = 5, F = 2: two successes, remaining_size 1, and the third call failed.
C1_Witness ==
    /\ track.F = 2 /\ Len(data) = 5
    /\ track.failed /\ track.nsucc = 2 /\ size = 1
    /\ call.op = "dissect" /\ ~call.rv /\ call.size0 = 1

\* C2 (dissect failure consumes nothing): a default dissect call with
\* frame.size = 0 or remaining_size < frame.size returns failure and leaves
\* the buffer position, remaining_size and the frame (payload and size) as
\* they were passed.
C2_DissectFailureConsumesNothing ==
    (DefaultCall("dissect") /\ (call.frame0.size = 0 \/ call.size0 < call.frame0.size)) =>
        /\ ~call.rv
        /\ buffer = call.buffer0
        /\ size = call.size0
        /\ frame = call.frame0

\* A zero-size frame was refused although bytes remained.
C2_Witness ==
    /\ DefaultCall("dissect")
    /\ call.frame0.size = 0 /\ call.size0 > 0 /\ call.buffer0 > 0
    /\ ~call.rv

\* C3 (default dissect success step): a default dissect call with
\* F = frame.size > 0 and remaining_size >= F succeeds; the frame's first F
\* bytes are the F bytes that were at the head of the buffer and the bytes
\* after them are untouched; the buffer position advanced by F,
\* remaining_size decreased by F, frame.size and the source bytes unchanged.
C3_DissectSuccessStep ==
    (DefaultCall("dissect") /\ call.frame0.size > 0 /\ call.size0 >= call.frame0.size) =>
        LET F == call.frame0.size
        IN  /\ call.rv
            /\ \A i \in 1..F : frame.buffer[i] = data[call.buffer0 + i]
            /\ \A i \in (F + 1)..MemLen : frame.buffer[i] = call.frame0.buffer[i]
            /\ buffer = call.buffer0 + F
            /\ size = call.size0 - F
            /\ frame.size = F
            /\ frame.cap = call.frame0.cap
            /\ \A i \in 1..Len(data) : data[i] = TestByte(i)

\* The boundary remaining_size = F, away from the start of the data.
C3_Witness ==
    /\ DefaultCall("dissect") /\ call.rv
    /\ call.frame0.size = 2 /\ call.size0 = 2 /\ call.buffer0 = 3
    /\ size = 0 /\ frame.cap >= 2

\* C10 (dissect conservation and bounds): while only the default dissector
\* has consumed from a buffer of S bytes, offset + remaining_size = S and
\* 0 <= offset <= S; and with one frame size F > 0 the i-th success
\* delivered the source bytes [(i-1)F, iF).
C10_DissectConservation ==
    ~track.custom =>
        /\ buffer + size = Len(data)
        /\ 0 <= buffer /\ buffer <= Len(data)
        /\ 0 <= size
        /\ (track.F > 0 /\ call.op = "dissect" /\ call.rv) =>
             /\ track.nsucc >= 1
             /\ SubSeq(frame.buffer, 1, track.F)
                  = SubSeq(data, (track.nsucc - 1) * track.F + 1, track.nsucc * track.F)

\* The second frame of two bytes out of five.
C10_Witness ==
    /\ ~track.custom /\ track.F = 2 /\ track.nsucc = 2 /\ Len(data) = 5
    /\ call.op = "dissect" /\ call.rv
    /\ buffer = 4 /\ size = 1

\* C4 (default fill is all-zero): a fill call on a codec whose family has no
\* fill returns success, the first N = frame.size bytes of the frame's buffer
\* are zero whatever they were, and frame.size is unchanged.
C4_DefaultFillZero ==
    DefaultCall("fill") =>
        /\ call.rv
        /\ \A i \in 1..call.frame0.size : frame.buffer[i] = 0
        /\ \A i \in (call.frame0.size + 1)..MemLen : frame.buffer[i] = call.frame0.buffer[i]
        /\ frame.size = call.frame0.size
        /\ frame.cap = call.frame0.cap

\* A frame of several non-zero bytes, within its capacity, was filled.
C4_Witness ==
    /\ DefaultCall("fill") /\ call.rv
    /\ call.frame0.size = 2 /\ call.frame0.cap = 3
    /\ \A i \in 1..2 : call.frame0.buffer[i] # 0 /\ frame.buffer[i] = 0
    /\ frame.buffer[3] = call.frame0.buffer[3]

\* C5 (no-op encode/decode): an encode (decode) call on a codec whose family
\* has no encode (decode) returns success and leaves the output frame
\* (content and size), the input frame and every codec as they were.
C5_NoOpTranscode ==
    [][ (call'.op \in {"encode", "decode"} /\ call'.op \notin codec[call'.cid].vtable) =>
            /\ call'.rv
            /\ frame' = call'.frame0
            /\ frame_in' = call'.frame_in0
            /\ codec' = codec ]_vars

\* Encode on a family with decode but no encode, its decoder state open.
C5_Witness ==
    /\ DefaultCall("encode") /\ call.rv
    /\ "decode" \in codec[call.cid].vtable
    /\ codec[call.cid].decoder_obj # NULL
    /\ call.frame_in0.size > 0 /\ frame.size > 0

\* C6 (clone independence): a clone is a new codec with the source's
\* capability set, attributes and descriptor and with absent encoder and
\* decoder state; no call changes a codec other than the one it is made on;
\* no call changes a codec's capability set, attributes or descriptor.
C6_CloneIndependence ==
    [][ /\ \A c \in DOMAIN codec :
             /\ c \in DOMAIN codec'
             /\ codec'[c].vtable = codec[c].vtable
             /\ codec'[c].attribs = codec[c].attribs
             /\ codec'[c].static_descriptor = codec[c].static_descriptor
             /\ c # call'.cid => codec'[c] = codec[c]
        /\ call'.op = "clone" =>
             /\ call'.cid \notin DOMAIN codec
             /\ call'.cid \in DOMAIN codec'
             /\ codec'[call'.cid].vtable = codec[call'.src].vtable
             /\ codec'[call'.cid].attribs = codec[call'.src].attribs
             /\ codec'[call'.cid].static_descriptor = codec[call'.src].static_descriptor
             /\ codec'[call'.cid].encoder_obj = NULL
             /\ codec'[call'.cid].decoder_obj = NULL ]_vars

\* A codec with open encoder and decoder state was cloned.
C6_Witness ==
    /\ call.op = "clone"
    /\ codec[call.src].encoder_obj # NULL /\ codec[call.src].decoder_obj # NULL
    /\ codec[call.cid].encoder_obj = NULL /\ codec[call.cid].decoder_obj = NULL
    /\ codec[call.cid].vtable = codec[call.src].vtable

\* C7 (absent lifecycle operations): an open_encoder, close_encoder,
\* open_decoder or close_decoder call on a codec whose family has no such
\* member returns success and changes no field of any codec.
C7_AbsentLifecycleNoOp ==
    [][ (call'.op \in LifecycleOps /\ call'.op \notin codec[call'.cid].vtable) =>
            /\ call'.rv
            /\ call'.calls = 0
            /\ codec' = codec ]_vars

\* open_encoder without implementation while the decoder state is open: the
\* encoder state stays absent, the decoder state stays open.
C7_Witness ==
    /\ DefaultCall("open_encoder") /\ call.rv
    /\ codec[call.cid].encoder_obj = NULL
    /\ codec[call.cid].decoder_obj # NULL

\* C8 (frame size within capacity): no core operation accesses a frame
\* buffer at an offset at or beyond its capacity: the bytes of the frame
\* buffer the last call read or wrote are within the frame's capacity.
C8_FrameSizeWithinCapacity ==
    call.extent <= call.frame0.cap

\* C9 (delegation is total and verbatim): when the family has the member, the
\* call invokes it once, returns what it reported, accesses the frame buffer
\* itself not at all, and leaves the buffer position, remaining_size, frames
\* and codec as the implementation left them.
C9_DelegationVerbatim ==
    (call.op \in Ops /\ call.op \in codec[call.cid].vtable) =>
        /\ fam # NoFam
        /\ call.calls = 1
        /\ call.rv = fam.rv
        /\ call.extent = 0
        /\ call.op = "dissect" =>
             buffer = fam.buffer /\ size = fam.size /\ frame = fam.frame
        /\ call.op = "fill" => frame = fam.frame
        /\ call.op \in {"encode", "decode"} =>
             frame = fam.frame_out /\ frame_in = fam.frame_in
        /\ call.op \in LifecycleOps => codec[call.cid] = fam.codec

\* A custom dissector took one byte where the default one would have refused
\* (remaining_size < frame.size).
C9_Witness ==
    /\ CustomCall("dissect") /\ call.rv
    /\ call.size0 < call.frame0.size
    /\ size = call.size0 - 1 /\ buffer = call.buffer0 + 1 /\ frame.size = 1

=============================================================================
